---- MODULE Spec2Model ----
(***************************************************************************)
(* Model of 5_agents/sagemaker-endpoint-to-agentcore/                      *)
(* 1-demand_forecasting.ipynb: a notebook that generates a synthetic       *)
(* demand series, engineers lag / rolling features, splits the frame,      *)
(* uploads it, trains and deploys a model and calls the endpoint.          *)
(*                                                                         *)
(* Numbers.  Every cell of a data frame is a tuple: <<>> is NaN (null),    *)
(* <<v>> is the number v, <<a, b>> is the rational a / b.  Demand values   *)
(* are fixed-point, in tenths (0.1 * time_idx is then exact).  A rolling   *)
(* standard deviation over observations x_1..x_n is represented by the     *)
(* moments that determine it, <<n, sum x, sum x^2>>:                       *)
(* std = sqrt((sum x^2 - (sum x)^2 / n) / (n - 1)).  np.sin is Bhaskara's  *)
(* rational approximation rounded to tenths.  np.random.normal is a draw   *)
(* z * scale where the standard-normal draws z come from a family indexed  *)
(* by the generator's seed.                                                *)
(***************************************************************************)
EXTENDS Integers, Sequences, FiniteSets, TLC

VARIABLES
    pc,               \* position of the next cell to run in CellOrder
    error,            \* "" or the exception that stopped the run
    defined,          \* names bound in the kernel's namespace
    args,             \* arguments generate_demand_data is called with
    seed,             \* state of numpy's random generator
    df,               \* global df
    X_train, y_train, X_val, y_val, X_test, y_test,
    s3_paths,         \* train_s3_path, val_s3_path, test_s3_path
    xgb_estimator,    \* global xgb_estimator
    predictor,        \* global predictor
    test_sample, actual, test_samples,
    stored,           \* what %store has saved
    s3,               \* object keys present in the bucket
    endpoint_configs, \* endpoint configurations of the account
    endpoints,        \* endpoints of the account
    input_df,         \* history: the frame prepare_features was called with
    deploy_log,       \* history: one record per deployment attempted
    trace             \* history: the calls made, in order

vars == <<pc, error, defined, args, seed, df, X_train, y_train, X_val, y_val,
          X_test, y_test, s3_paths, xgb_estimator, predictor, test_sample,
          actual, test_samples, stored, s3, endpoint_configs, endpoints,
          input_df, deploy_log, trace>>

-----------------------------------------------------------------------------
(* Bounds of the model *)

MaxPeriods == 36
MaxSeed == 2

-----------------------------------------------------------------------------
(* Numbers and frames *)

NaN == <<>>
Num(v) == <<v>>
Val(c) == c[1]
Fx(x) == x * 10
Max(a, b) == IF a >= b THEN a ELSE b
Min(a, b) == IF a <= b THEN a ELSE b

\* pandas.DataFrame: column names, index labels, one record per row
DataFrame(columns, index, data) ==
    [columns |-> columns, index |-> index, data |-> data]
\* pandas.Series
Series(name, index, data) == [name |-> name, index |-> index, data |-> data]

EmptyFrame == DataFrame(<<>>, <<>>, <<>>)
EmptySeries == Series("", <<>>, <<>>)

\* df[name]
Column(frame, name) ==
    Series(name, frame.index, [i \in 1..Len(frame.data) |-> frame.data[i][name]])

\* df[name] = values : a new column goes last, an existing one is replaced
SetColumn(frame, name, values) ==
    DataFrame(
        IF \E k \in 1..Len(frame.columns) : frame.columns[k] = name
            THEN frame.columns ELSE Append(frame.columns, name),
        frame.index,
        [i \in 1..Len(frame.data) |->
            [c \in (DOMAIN frame.data[i]) \cup {name} |->
                IF c = name THEN values[i] ELSE frame.data[i][c]]])

\* frame.iloc[a:b] with 0 <= a <= b (Python slice, 0-based, b exclusive)
ILoc(frame, a, b) ==
    LET lo == Min(a, Len(frame.data))
        hi == Min(b, Len(frame.data))
    IN  [frame EXCEPT !.index = SubSeq(frame.index, lo + 1, hi),
                      !.data = SubSeq(frame.data, lo + 1, hi)]

-----------------------------------------------------------------------------
(* generate_demand_data *)

base_demand == 100

\* amp * np.sin(2 * np.pi * t / period), in tenths
Sin(amp, t, period) ==
    LET u == t % period
        a == IF 2 * u <= period THEN 2 * u ELSE 2 * u - period
        b == IF 2 * u <= period THEN period - 2 * u ELSE 2 * period - 2 * u
        m == (Fx(amp) * 16 * a * b) \div (5 * period * period - 4 * a * b)
    IN  IF 2 * u <= period THEN m ELSE 0 - m

\* the t-th standard-normal draw of the generator seeded with sd
StdNormal(sd, t) == ((sd * (t + 1) * 5 + t * t) % 13) - 6

\* np.random.normal(0, scale, n)[t], scale in tenths
normal(sd, scale, t) == StdNormal(sd, t) * scale

IsLeap(y) == (y % 4 = 0 /\ y % 100 # 0) \/ y % 400 = 0
DaysInMonth(y, m) ==
    IF m = 2 THEN (IF IsLeap(y) THEN 29 ELSE 28)
    ELSE IF m \in {4, 6, 9, 11} THEN 30 ELSE 31

RECURSIVE Civil(_, _, _)
Civil(y, m, rem) ==
    IF rem < DaysInMonth(y, m)
        THEN [year |-> y, month |-> m, day |-> rem + 1]
        ELSE IF m = 12 THEN Civil(y + 1, 1, rem - DaysInMonth(y, m))
                       ELSE Civil(y, m + 1, rem - DaysInMonth(y, m))

\* pd.date_range(start='2021-01-01', periods=n)[t]: a date is its day offset
\* from 2021-01-01 (a Friday: dayofweek 4)
DateOf(t) == Civil(2021, 1, t)
DayOfWeek(t) == (4 + t) % 7

\* the demand without the clamp at 0
demand_at_unclamped(t, seasonality, trend, noise_level, sd) ==
    Fx(base_demand) + (IF trend THEN t ELSE 0)
        + (IF seasonality THEN Sin(10, t, 7) + Sin(20, t, 30) + Sin(50, t, 365) ELSE 0)
        + normal(sd, noise_level * base_demand, t)

demand_at(t, seasonality, trend, noise_level, sd) ==
    LET trend_component == IF trend THEN t ELSE 0
        weekly == Sin(10, t, 7)
        monthly == Sin(20, t, 30)
        yearly == Sin(50, t, 365)
        seasonality_component ==
            IF seasonality THEN weekly + monthly + yearly ELSE 0
        noise == normal(sd, noise_level * base_demand, t)
        demand == Fx(base_demand) + trend_component + seasonality_component + noise
    IN  Max(demand, 0)

generate_demand_data(n_periods, seasonality, trend, noise_level, sd) ==
    DataFrame(
        <<"date", "demand", "dayofweek", "month", "day", "year", "quarter">>,
        [i \in 1..n_periods |-> i - 1],
        [i \in 1..n_periods |->
            LET t == i - 1
                d == DateOf(t)
            IN  [date |-> Num(t),
                 demand |-> Num(demand_at(t, seasonality, trend, noise_level, sd)),
                 dayofweek |-> Num(DayOfWeek(t)),
                 month |-> Num(d.month),
                 day |-> Num(d.day),
                 year |-> Num(d.year),
                 quarter |-> Num(((d.month - 1) \div 3) + 1)]])

-----------------------------------------------------------------------------
(* prepare_features *)

lags == <<1, 7, 14, 30>>
windows == <<7, 14, 30>>

\* a shift that is one row short
shift_one_short(values, periods) ==
    [i \in 1..Len(values) |->
        IF i - periods >= 1 THEN values[i - periods + 1] ELSE NaN]

\* Series.shift(periods): row i takes the value periods rows earlier
shift(values, periods) ==
    [i \in 1..Len(values) |-> IF i - periods >= 1 THEN values[i - periods] ELSE NaN]

RECURSIVE SumSeq(_)
SumSeq(xs) == IF xs = <<>> THEN 0 ELSE Val(Head(xs)) + SumSeq(Tail(xs))

RECURSIVE SumSquares(_)
SumSquares(xs) ==
    IF xs = <<>> THEN 0 ELSE Val(Head(xs)) * Val(Head(xs)) + SumSquares(Tail(xs))

\* a window that ends one row before row i
Observations_before(values, window, i) ==
    SelectSeq(SubSeq(values, Max(1, i - window), i - 1), LAMBDA v : v # NaN)

\* the observations Series.rolling(window) aggregates at row i: the non-null
\* values of the last `window` rows up to and including row i
Observations(values, window, i) ==
    SelectSeq(SubSeq(values, Max(1, i - window + 1), i), LAMBDA v : v # NaN)

\* Series.rolling(window).mean(); min_periods defaults to window
rolling_mean(values, window) ==
    [i \in 1..Len(values) |->
        LET obs == Observations(values, window, i)
        IN  IF Len(obs) < window THEN NaN ELSE <<SumSeq(obs), Len(obs)>>]

\* Series.rolling(window).std(), ddof = 1, as the moments that determine it
rolling_std(values, window) ==
    [i \in 1..Len(values) |->
        LET obs == Observations(values, window, i)
            n == Len(obs)
        IN  IF n < window \/ n < 2 THEN NaN
            ELSE <<n, SumSeq(obs), SumSquares(obs)>>]

\* for lag in [1, 7, 14, 30]: df[f'lag_{lag}'] = df['demand'].shift(lag)
RECURSIVE AddLags(_, _)
AddLags(frame, k) ==
    IF k > Len(lags) THEN frame
    ELSE AddLags(SetColumn(frame, "lag_" \o ToString(lags[k]),
                           shift(Column(frame, "demand").data, lags[k])), k + 1)

\* for window in [7, 14, 30]: df[f'rolling_mean_{window}'] = ...; df[f'rolling_std_{window}'] = ...
RECURSIVE AddRolling(_, _)
AddRolling(frame, k) ==
    IF k > Len(windows) THEN frame
    ELSE LET w == windows[k]
             withMean == SetColumn(frame, "rolling_mean_" \o ToString(w),
                                   rolling_mean(Column(frame, "demand").data, w))
             withStd == SetColumn(withMean, "rolling_std_" \o ToString(w),
                                  rolling_std(Column(withMean, "demand").data, w))
         IN  AddRolling(withStd, k + 1)

\* no row is dropped
dropna_omitted(frame) == frame

HasNaN(row) == \E c \in DOMAIN row : row[c] = NaN

\* DataFrame.dropna(): the rows without a null, index labels kept
dropna(frame) ==
    LET keep == SelectSeq([i \in 1..Len(frame.data) |-> i],
                          LAMBDA i : ~HasNaN(frame.data[i]))
    IN  DataFrame(frame.columns,
                  [k \in 1..Len(keep) |-> frame.index[keep[k]]],
                  [k \in 1..Len(keep) |-> frame.data[keep[k]]])

prepare_features(frame) == dropna(AddRolling(AddLags(frame, 1), 1))

-----------------------------------------------------------------------------
(* split_data *)

\* [col for col in df.columns if col not in ['date', 'demand']]
features(frame) == SelectSeq(frame.columns, LAMBDA col : col \notin {"date", "demand"})

\* df[features]
Project(frame, cols) ==
    DataFrame(cols, frame.index,
              [i \in 1..Len(frame.data) |->
                  [c \in {cols[k] : k \in 1..Len(cols)} |-> frame.data[i][c]]])

\* a split whose test part starts one row early
train_test_split_overlapping(X, y, num, den) ==
    LET n == Len(X.data)
        n_test == (num * n + den - 1) \div den
        n_train == n - n_test
    IN  IF n_train = 0
        THEN [raised |-> TRUE, X_train |-> EmptyFrame, X_test |-> EmptyFrame,
              y_train |-> EmptySeries, y_test |-> EmptySeries]
        ELSE [raised |-> FALSE,
              X_train |-> ILoc(X, 0, n_train),
              X_test |-> ILoc(X, n_train - 1, n_train + n_test),
              y_train |-> ILoc(y, 0, n_train),
              y_test |-> ILoc(y, n_train - 1, n_train + n_test)]

\* sklearn train_test_split(X, y, test_size=num/den, shuffle=False):
\* n_test = ceil(test_size * n), n_train = n - n_test, ValueError when the
\* train set would be empty
train_test_split(X, y, num, den) ==
    LET n == Len(X.data)
        n_test == (num * n + den - 1) \div den
        n_train == n - n_test
    IN  IF n_train = 0
        THEN [raised |-> TRUE, X_train |-> EmptyFrame, X_test |-> EmptyFrame,
              y_train |-> EmptySeries, y_test |-> EmptySeries]
        ELSE [raised |-> FALSE,
              X_train |-> ILoc(X, 0, n_train),
              X_test |-> ILoc(X, n_train, n_train + n_test),
              y_train |-> ILoc(y, 0, n_train),
              y_test |-> ILoc(y, n_train, n_train + n_test)]

split_data(frame) ==
    LET X == Project(frame, features(frame))
        y == Column(frame, "demand")
        first == train_test_split(X, y, 3, 10)
        second == train_test_split(first.X_test, first.y_test, 5, 10)
    IN  [raised |-> first.raised \/ second.raised,
         X_train |-> first.X_train, y_train |-> first.y_train,
         X_val |-> second.X_train, y_val |-> second.y_train,
         X_test |-> second.X_test, y_test |-> second.y_test]

-----------------------------------------------------------------------------
(* The notebook: its code cells in document order.  The kernel runs them top *)
(* to bottom and stops at the first cell that raises.                       *)

\* the request cells placed before the deployment
CellOrder_invoke_first ==
    <<"imports", "session", "generate", "visualize", "features", "split",
      "save", "train", "sample", "invoke", "deploy", "test", "plot", "store">>

CellOrder ==
    <<"imports", "session", "generate", "visualize", "features", "split",
      "save", "train", "deploy", "sample", "invoke", "test", "plot", "store">>

endpoint_name == "ml-models-as-tools"
sample_rows == 5
n_samples == 50
noise_level_default == 2
n_periods_default == 365 * 2

\* the defaults of generate_demand_data's parameters (noise_level in tenths)
DefaultArgs ==
    [n_periods |-> n_periods_default, seasonality |-> TRUE, trend |-> TRUE,
     noise_level |-> noise_level_default]

\* the global names a cell's top-level code reads
Uses(cell) ==
    CASE cell = "visualize" -> {"df"}
      [] cell = "features" -> {"df"}
      [] cell = "split" -> {"df"}
      [] cell = "save" -> {"X_train", "y_train", "X_val", "y_val", "X_test",
                           "y_test", "session", "bucket"}
      [] cell = "train" -> {"train_s3_path", "val_s3_path", "role", "bucket"}
      [] cell = "deploy" -> {"xgb_estimator"}
      [] cell = "sample" -> {"X_test", "y_test"}
      [] cell = "invoke" -> {"test_sample"}
      [] cell = "test" -> {"predictor", "test_sample", "actual"}
      [] cell = "plot" -> {"X_test", "y_test", "predictor"}
      [] cell = "store" -> {"predictor", "test_sample", "actual"}
      [] OTHER -> {}

Ready(cell) == error = "" /\ pc <= Len(CellOrder) /\ CellOrder[pc] = cell
Bound(cell) == Uses(cell) \subseteq defined

dataVars == <<df, X_train, y_train, X_val, y_val, X_test, y_test>>
sampleVars == <<test_sample, actual, test_samples>>
cloudVars == <<s3, endpoint_configs, endpoints>>
modelVars == <<s3_paths, xgb_estimator, predictor>>
histVars == <<input_df, deploy_log, trace>>

\* a cell that reads an unbound name raises NameError before doing anything
NameError ==
    /\ error' = "NameError"
    /\ UNCHANGED <<pc, defined, args, seed, dataVars, sampleVars, cloudVars,
                   modelVars, histVars, stored>>

\* DataFrame.values.tolist(): the rows as lists, in column order
ValuesToList(frame) ==
    [i \in 1..Len(frame.data) |->
        [k \in 1..Len(frame.columns) |-> frame.data[i][frame.columns[k]]]]

NoEstimator == [trained |-> FALSE, train |-> "", validation |-> ""]
NoPredictor == [endpoint_name |-> ""]
NothingStored ==
    [saved |-> FALSE, ENDPOINT_NAME |-> "", test_sample |-> <<>>, actual |-> <<>>]
NoPaths == [train |-> "", validation |-> "", test |-> ""]

InitCommon ==
    /\ error = ""
    /\ df = EmptyFrame
    /\ X_train = EmptyFrame /\ X_val = EmptyFrame /\ X_test = EmptyFrame
    /\ y_train = EmptySeries /\ y_val = EmptySeries /\ y_test = EmptySeries
    /\ s3_paths = NoPaths
    /\ xgb_estimator = NoEstimator
    /\ predictor = NoPredictor
    /\ test_sample = <<>> /\ actual = <<>> /\ test_samples = <<>>
    /\ stored = NothingStored
    /\ s3 = {}
    /\ input_df = EmptyFrame
    /\ deploy_log = <<>>
    /\ trace = <<>>

\* a fresh kernel; the account may hold leftovers of an earlier run
Init ==
    /\ InitCommon
    /\ pc = 1
    /\ defined = {}
    /\ args = DefaultArgs
    /\ seed \in 0..MaxSeed
    /\ endpoint_configs \in SUBSET {endpoint_name}
    /\ endpoints \in SUBSET {endpoint_name}

-----------------------------------------------------------------------------
(* Cells *)

ImportsCell ==
    /\ Ready("imports")
    /\ pc' = pc + 1
    /\ UNCHANGED <<error, defined, args, seed, dataVars, sampleVars, cloudVars,
                   modelVars, histVars, stored>>

\* session, bucket, region, role; the role falls back to input() on failure
SessionCell ==
    /\ Ready("session")
    /\ \E ok \in BOOLEAN :
        IF ok
        THEN /\ defined' = defined \cup {"session", "bucket", "region", "role"}
             /\ pc' = pc + 1
             /\ UNCHANGED error
        ELSE /\ error' = "ClientError"
             /\ UNCHANGED <<pc, defined>>
    /\ UNCHANGED <<args, seed, dataVars, sampleVars, cloudVars, modelVars,
                   histVars, stored>>

GenerateCell ==
    /\ Ready("generate")
    /\ df' = generate_demand_data(args.n_periods, args.seasonality, args.trend,
                                  args.noise_level, seed)
    /\ defined' = defined \cup {"df"}
    /\ trace' = Append(trace, "generate_demand_data")
    /\ pc' = pc + 1
    /\ UNCHANGED <<error, args, seed, X_train, y_train, X_val, y_val, X_test,
                   y_test, sampleVars, cloudVars, modelVars, input_df,
                   deploy_log, stored>>

VisualizeCell ==
    /\ Ready("visualize")
    /\ IF Bound("visualize")
       THEN /\ pc' = pc + 1
            /\ UNCHANGED <<error, defined, args, seed, dataVars, sampleVars,
                           cloudVars, modelVars, histVars, stored>>
       ELSE NameError

FeatureCell ==
    /\ Ready("features")
    /\ IF Bound("features")
       THEN /\ input_df' = df
            /\ df' = prepare_features(df)
            /\ trace' = Append(trace, "prepare_features")
            /\ pc' = pc + 1
            /\ UNCHANGED <<error, defined, args, seed, X_train, y_train, X_val,
                           y_val, X_test, y_test, sampleVars, cloudVars,
                           modelVars, deploy_log, stored>>
       ELSE NameError

SplitCell ==
    /\ Ready("split")
    /\ IF Bound("split")
       THEN LET r == split_data(df)
            IN  IF r.raised
                THEN /\ error' = "ValueError"
                     /\ UNCHANGED <<pc, defined, args, seed, dataVars,
                                    sampleVars, cloudVars, modelVars, histVars,
                                    stored>>
                ELSE /\ X_train' = r.X_train /\ y_train' = r.y_train
                     /\ X_val' = r.X_val /\ y_val' = r.y_val
                     /\ X_test' = r.X_test /\ y_test' = r.y_test
                     /\ defined' = defined \cup {"X_train", "y_train", "X_val",
                                                 "y_val", "X_test", "y_test"}
                     /\ trace' = Append(trace, "split_data")
                     /\ pc' = pc + 1
                     /\ UNCHANGED <<error, args, seed, df, sampleVars,
                                    cloudVars, modelVars, input_df, deploy_log,
                                    stored>>
       ELSE NameError

\* the three uploads of save_data_to_s3, in the order it makes them
uploads == <<"train", "validation", "test">>
S3Key(which) == "demand-forecast/data/" \o which \o ".csv"
S3Uri(which) == "s3://bucket/" \o S3Key(which)

\* save_data_to_s3 where the first `done` uploads succeed and the next raises
save_data_to_s3(bucket_keys, done) ==
    [raised |-> done < Len(uploads),
     s3 |-> bucket_keys \cup {S3Key(uploads[k]) : k \in 1..done},
     calls |-> [k \in 1..done |-> "upload_data:" \o uploads[k]],
     paths |-> [train |-> S3Uri("train"), validation |-> S3Uri("validation"),
                test |-> S3Uri("test")]]

SaveCell ==
    /\ Ready("save")
    /\ IF Bound("save")
       THEN \E done \in 0..Len(uploads) :
            LET r == save_data_to_s3(s3, done)
            IN  /\ s3' = r.s3
                /\ IF r.raised
                   THEN /\ error' = "ClientError"
                        /\ trace' = trace \o r.calls
                        /\ UNCHANGED <<pc, defined, s3_paths>>
                   ELSE /\ s3_paths' = r.paths
                        /\ defined' = defined \cup {"train_s3_path", "val_s3_path",
                                                    "test_s3_path"}
                        /\ trace' = (trace \o r.calls) \o <<"save_data_to_s3">>
                        /\ pc' = pc + 1
                        /\ UNCHANGED error
                /\ UNCHANGED <<args, seed, dataVars, sampleVars, endpoint_configs,
                               endpoints, xgb_estimator, predictor, input_df,
                               deploy_log, stored>>
       ELSE NameError

\* train_model: xgb_estimator.fit on the two channels; ok is whether the
\* training job succeeds
train_model(train_s3_path, val_s3_path, ok) ==
    [raised |-> ~ok,
     calls |-> <<"fit">>,
     estimator |-> [trained |-> TRUE, train |-> train_s3_path,
                    validation |-> val_s3_path]]

TrainCell ==
    /\ Ready("train")
    /\ IF Bound("train")
       THEN \E ok \in BOOLEAN :
            LET r == train_model(s3_paths.train, s3_paths.validation, ok)
            IN  /\ IF r.raised
                   THEN /\ error' = "TrainingError"
                        /\ trace' = trace \o r.calls
                        /\ UNCHANGED <<pc, defined, xgb_estimator>>
                   ELSE /\ xgb_estimator' = r.estimator
                        /\ defined' = defined \cup {"instance_type", "xgb_estimator"}
                        /\ trace' = (trace \o r.calls) \o <<"train_model">>
                        /\ pc' = pc + 1
                        /\ UNCHANGED error
                /\ UNCHANGED <<args, seed, dataVars, sampleVars, cloudVars,
                               s3_paths, predictor, input_df, deploy_log, stored>>
       ELSE NameError

\* what the try block of deploy_model can do
DeleteOutcomes(configs) ==
    {"client_failed", "failed"}
        \cup (IF endpoint_name \in configs THEN {"deleted"} ELSE {"not_found"})

\* the delete without its except clause
try_delete_endpoint_config_unhandled(configs, outcome) ==
    [raised |-> outcome # "deleted",
     configs |-> IF outcome = "deleted" THEN configs \ {endpoint_name} ELSE configs]

\* try: client = boto3.client(...); client.delete_endpoint_config(...)
\* except: pass
try_delete_endpoint_config(configs, outcome) ==
    [raised |-> FALSE,
     configs |-> IF outcome = "deleted" THEN configs \ {endpoint_name} ELSE configs]

\* xgb_estimator.deploy(endpoint_name=...): creates the endpoint configuration
\* of that name, then the endpoint; either creation fails when the name is taken
deploy(configs, eps, ok) ==
    IF endpoint_name \in configs
    THEN [raised |-> TRUE, configs |-> configs, endpoints |-> eps]
    ELSE [raised |-> endpoint_name \in eps \/ ~ok,
          configs |-> configs \cup {endpoint_name},
          endpoints |-> IF ok THEN eps \cup {endpoint_name} ELSE eps]

deploy_model(configs, eps, outcome, ok) ==
    LET del == try_delete_endpoint_config(configs, outcome)
        dep == deploy(del.configs, eps, ok)
    IN  IF del.raised
        THEN [raised |-> TRUE, attempts |-> <<>>, calls |-> <<>>,
              configs |-> del.configs, endpoints |-> eps,
              predictor |-> NoPredictor]
        ELSE [raised |-> dep.raised,
              attempts |-> <<[endpoint_name |-> endpoint_name,
                              delete |-> outcome,
                              config_before |-> endpoint_name \in configs,
                              config_at_deploy |-> endpoint_name \in del.configs]>>,
              calls |-> <<"deploy">>,
              configs |-> dep.configs, endpoints |-> dep.endpoints,
              predictor |-> [endpoint_name |-> endpoint_name]]

DeployCell ==
    /\ Ready("deploy")
    /\ IF Bound("deploy")
       THEN \E outcome \in DeleteOutcomes(endpoint_configs), ok \in BOOLEAN :
            LET r == deploy_model(endpoint_configs, endpoints, outcome, ok)
            IN  /\ endpoint_configs' = r.configs
                /\ endpoints' = r.endpoints
                /\ deploy_log' = deploy_log \o r.attempts
                /\ IF r.raised
                   THEN /\ error' = "ClientError"
                        /\ trace' = trace \o r.calls
                        /\ UNCHANGED <<pc, defined, predictor>>
                   ELSE /\ predictor' = r.predictor
                        /\ defined' = defined \cup {"deploy_instance_type", "predictor"}
                        /\ trace' = (trace \o r.calls) \o <<"deploy_model">>
                        /\ pc' = pc + 1
                        /\ UNCHANGED error
                /\ UNCHANGED <<args, seed, dataVars, sampleVars, s3, s3_paths,
                               xgb_estimator, input_df, stored>>
       ELSE NameError

\* test_sample = X_test.iloc[:5].values.tolist(); actual = y_test.iloc[:5].values
SampleCell ==
    /\ Ready("sample")
    /\ IF Bound("sample")
       THEN /\ test_sample' = ValuesToList(ILoc(X_test, 0, sample_rows))
            /\ actual' = ILoc(y_test, 0, sample_rows).data
            /\ defined' = defined \cup {"test_sample", "actual"}
            /\ pc' = pc + 1
            /\ UNCHANGED <<error, args, seed, dataVars, test_samples, cloudVars,
                           modelVars, histVars, stored>>
       ELSE NameError

\* a request to the endpoint of that name: it raises when there is no such
\* endpoint or the service fails
invoke_endpoint(eps, name, ok) == [raised |-> name \notin eps \/ ~ok]

\* generate_prediction_with_boto3("ml-models-as-tools", test_sample)
InvokeCell ==
    /\ Ready("invoke")
    /\ IF Bound("invoke")
       THEN \E ok \in BOOLEAN :
            LET r == invoke_endpoint(endpoints, endpoint_name, ok)
            IN  /\ trace' = Append(trace, "invoke_endpoint")
                /\ IF r.raised
                   THEN error' = "ClientError" /\ UNCHANGED pc
                   ELSE pc' = pc + 1 /\ UNCHANGED error
                /\ UNCHANGED <<defined, args, seed, dataVars, sampleVars,
                               cloudVars, modelVars, input_df, deploy_log, stored>>
       ELSE NameError

\* test_endpoint(predictor, test_sample, actual): one prediction per row sent;
\* the error metrics raise ValueError on inputs of different or zero length
TestCell ==
    /\ Ready("test")
    /\ IF Bound("test")
       THEN \E ok \in BOOLEAN :
            LET r == invoke_endpoint(endpoints, predictor.endpoint_name, ok)
            IN  /\ trace' = Append(trace, "predict")
                /\ IF r.raised
                   THEN error' = "ClientError" /\ UNCHANGED <<pc, defined>>
                   ELSE IF Len(actual) # Len(test_sample) \/ Len(actual) = 0
                   THEN error' = "ValueError" /\ UNCHANGED <<pc, defined>>
                   ELSE /\ defined' = defined \cup {"mae", "rmse"}
                        /\ pc' = pc + 1
                        /\ UNCHANGED error
                /\ UNCHANGED <<args, seed, dataVars, sampleVars, cloudVars,
                               modelVars, input_df, deploy_log, stored>>
       ELSE NameError

\* test_samples = X_test.iloc[:n_samples].values.tolist()
\* predictions = predictor.predict(test_samples)
\* actual = y_test.iloc[:n_samples].values
PlotCell ==
    /\ Ready("plot")
    /\ IF Bound("plot")
       THEN \E ok \in BOOLEAN :
            LET r == invoke_endpoint(endpoints, predictor.endpoint_name, ok)
            IN  /\ test_samples' = ValuesToList(ILoc(X_test, 0, n_samples))
                /\ trace' = Append(trace, "predict")
                /\ IF r.raised
                   THEN /\ error' = "ClientError"
                        /\ defined' = defined \cup {"n_samples", "test_samples"}
                        /\ UNCHANGED <<pc, actual>>
                   ELSE /\ actual' = ILoc(y_test, 0, n_samples).data
                        /\ defined' = defined \cup {"n_samples", "test_samples",
                                                    "predictions", "actual"}
                        /\ pc' = pc + 1
                        /\ UNCHANGED error
                /\ UNCHANGED <<args, seed, dataVars, test_sample, cloudVars,
                               modelVars, input_df, deploy_log, stored>>
       ELSE NameError

\* ENDPOINT_NAME = predictor.endpoint_name; %store ENDPOINT_NAME test_sample actual
StoreCell ==
    /\ Ready("store")
    /\ IF Bound("store")
       THEN /\ stored' = [saved |-> TRUE, ENDPOINT_NAME |-> predictor.endpoint_name,
                          test_sample |-> test_sample, actual |-> actual]
            /\ defined' = defined \cup {"ENDPOINT_NAME"}
            /\ pc' = pc + 1
            /\ UNCHANGED <<error, args, seed, dataVars, sampleVars, cloudVars,
                           modelVars, histVars>>
       ELSE NameError

Next ==
    \/ ImportsCell
    \/ SessionCell
    \/ GenerateCell
    \/ VisualizeCell
    \/ FeatureCell
    \/ SplitCell
    \/ SaveCell
    \/ TrainCell
    \/ DeployCell
    \/ SampleCell
    \/ InvokeCell
    \/ TestCell
    \/ PlotCell
    \/ StoreCell

Spec == Init /\ [][Next]_vars

-----------------------------------------------------------------------------
(* The data functions on their own: generate_demand_data is called with     *)
(* arguments drawn from bounded sets, then prepare_features and split_data  *)
(* are applied to its result.                                               *)

NoiseLevels == {0, 2, 5}

InitFn ==
    /\ InitCommon
    /\ pc = 3
    /\ defined = {"session", "bucket", "region", "role"}
    /\ args \in [n_periods : 0..MaxPeriods, seasonality : BOOLEAN,
                 trend : BOOLEAN, noise_level : NoiseLevels] \cup {DefaultArgs}
    /\ seed \in 0..MaxSeed
    /\ endpoint_configs = {}
    /\ endpoints = {}

NextFn == GenerateCell \/ VisualizeCell \/ FeatureCell \/ SplitCell

SpecFn == InitFn /\ [][NextFn]_vars

-----------------------------------------------------------------------------
(* Properties *)

Generated == Len(trace) >= 1 /\ trace[1] = "generate_demand_data"
Prepared == Len(trace) >= 2 /\ trace[2] = "prepare_features"
Split == Len(trace) >= 3 /\ trace[3] = "split_data"

Occurs(call) == \E i \in 1..Len(trace) : trace[i] = call
\* every occurrence of `call` in the trace comes after an occurrence of `before`
PrecededBy(call, before) ==
    \A i \in 1..Len(trace) :
        trace[i] = call => \E j \in 1..(i - 1) : trace[j] = before

Pipeline ==
    <<"generate_demand_data", "prepare_features", "split_data",
      "save_data_to_s3", "train_model", "deploy_model">>
Requests == {"invoke_endpoint", "predict"}
Returned ==
    SelectSeq(trace, LAMBDA e : \E k \in 1..Len(Pipeline) : Pipeline[k] = e)
Finished == error = "" /\ pc > Len(CellOrder)

\* C1: a top-to-bottom run performs the stages in the fixed order
\* generate_demand_data, prepare_features, split_data, save_data_to_s3,
\* train_model, deploy_model, endpoint invocation; no cell reads a name an
\* earlier cell has not bound; training starts only after the train and the
\* validation CSV are uploaded; the deployment starts only after train_model
\* has returned; no request is sent before deploy_model has returned.
C1_StageOrder ==
    /\ error # "NameError"
    /\ Len(Returned) <= Len(Pipeline)
    /\ Returned = SubSeq(Pipeline, 1, Len(Returned))
    /\ PrecededBy("fit", "upload_data:train")
    /\ PrecededBy("fit", "upload_data:validation")
    /\ PrecededBy("deploy", "train_model")
    /\ \A q \in Requests : PrecededBy(q, "deploy_model")
    /\ Finished => (Returned = Pipeline /\ \E q \in Requests : Occurs(q))

C1_Witness ==
    /\ Finished
    /\ Occurs("fit") /\ Occurs("deploy")
    /\ Occurs("invoke_endpoint") /\ Occurs("predict")

DeployPos == CHOOSE k \in 1..Len(CellOrder) : CellOrder[k] = "deploy"
\* the deploy cell has called deploy_model (it returned or it raised)
DeployModelCalled ==
    pc > DeployPos \/ (pc = DeployPos /\ error \notin {"", "NameError"})

\* C2: whatever the delete of the endpoint configuration does, deploy_model
\* goes on to attempt the deployment to 'ml-models-as-tools'; and when the
\* configuration existed and the delete succeeded, it does not exist when the
\* deployment is attempted.
C2_BestEffortDelete ==
    /\ DeployModelCalled =>
        /\ Len(deploy_log) = 1
        /\ deploy_log[1].endpoint_name = "ml-models-as-tools"
        /\ Occurs("deploy")
    /\ \A k \in 1..Len(deploy_log) :
        (deploy_log[k].config_before /\ deploy_log[k].delete = "deleted")
            => ~deploy_log[k].config_at_deploy

C2_Witness ==
    /\ DeployModelCalled
    /\ Len(deploy_log) = 1
    /\ deploy_log[1].delete \in {"failed", "client_failed"}
    /\ deploy_log[1].config_before

C2_WitnessDeleted ==
    /\ Len(deploy_log) = 1
    /\ deploy_log[1].delete = "deleted"
    /\ deploy_log[1].config_before
    /\ ~deploy_log[1].config_at_deploy

\* the demand of the input row whose index label is t
InputDemand(t) == Val(input_df.data[t + 1]["demand"])

\* C3: in the frame prepare_features returns, lag_N at the row labelled t is
\* the demand of input row t - N, for N in 1, 7, 14, 30.
C3_LagIsEarlierRow ==
    Prepared =>
        \A k \in 1..Len(df.data) : \A N \in {1, 7, 14, 30} :
            LET t == df.index[k]
            IN  /\ t - N >= 0
                /\ df.data[k]["lag_" \o ToString(N)] = <<InputDemand(t - N)>>

C3_Witness ==
    /\ Prepared
    /\ Len(df.data) >= 2
    /\ \E k \in 1..Len(df.data) :
        /\ df.data[k]["lag_1"] # df.data[k]["demand"]
        /\ df.data[k]["lag_7"] # df.data[k]["lag_1"]
        /\ df.data[k]["lag_30"] # df.data[k]["lag_14"]

RECURSIVE RangeSum(_, _)
RangeSum(lo, hi) == IF lo > hi THEN 0 ELSE InputDemand(lo) + RangeSum(lo + 1, hi)

RECURSIVE RangeSquares(_, _)
RangeSquares(lo, hi) ==
    IF lo > hi THEN 0
    ELSE InputDemand(lo) * InputDemand(lo) + RangeSquares(lo + 1, hi)

\* C4: in the frame prepare_features returns, rolling_mean_W and
\* rolling_std_W at the row labelled t are the mean and the standard deviation
\* of the W demand values of input rows t - W + 1 .. t, for W in 7, 14, 30.
C4_TrailingWindow ==
    Prepared =>
        \A k \in 1..Len(df.data) : \A W \in {7, 14, 30} :
            LET t == df.index[k]
                lo == t - W + 1
            IN  /\ lo >= 0
                /\ df.data[k]["rolling_mean_" \o ToString(W)]
                       = <<RangeSum(lo, t), W>>
                /\ df.data[k]["rolling_std_" \o ToString(W)]
                       = <<W, RangeSum(lo, t), RangeSquares(lo, t)>>

C4_Witness ==
    /\ Prepared
    /\ Len(df.data) >= 2
    /\ df.data[1]["rolling_mean_7"] # df.data[2]["rolling_mean_7"]
    /\ df.data[1]["rolling_std_30"] # df.data[2]["rolling_std_30"]

\* C5: the frame prepare_features returns has no null, and it is input rows
\* 30 .. n - 1 in their order: n - 30 rows when n > 30 (700 of 730), none when
\* n <= 30.
C5_DropsFirstThirty ==
    Prepared =>
        LET n == Len(input_df.data)
        IN  /\ \A k \in 1..Len(df.data) : ~HasNaN(df.data[k])
            /\ Len(df.data) = IF n > 30 THEN n - 30 ELSE 0
            /\ n = 730 => Len(df.data) = 700
            /\ df.index = [k \in 1..Len(df.data) |-> 29 + k]
            /\ \A k \in 1..Len(df.data) :
                \A c \in DOMAIN input_df.data[30 + k] :
                    df.data[k][c] = input_df.data[30 + k][c]

C5_Witness ==
    /\ Prepared
    /\ Len(input_df.data) > 30
    /\ Len(df.data) = Len(input_df.data) - 30
    /\ Len(df.data) >= 2

C5_WitnessEmpty ==
    Prepared /\ Len(input_df.data) \in 1..30 /\ Len(df.data) = 0

\* the row of df whose index label is t
RowOf(t) == df.data[CHOOSE k \in 1..Len(df.index) : df.index[k] = t]

Aligned(X, y) ==
    /\ X.index = y.index
    /\ Len(X.data) = Len(X.index) /\ Len(y.data) = Len(y.index)
    /\ X.columns = SelectSeq(df.columns, LAMBDA c : c # "date" /\ c # "demand")
    /\ \A k \in 1..Len(X.index) :
        /\ y.data[k] = RowOf(X.index[k])["demand"]
        /\ DOMAIN X.data[k] = (DOMAIN RowOf(X.index[k])) \ {"date", "demand"}
        /\ \A c \in DOMAIN X.data[k] : X.data[k][c] = RowOf(X.index[k])[c]

\* C6: split_data partitions the rows chronologically: train, validation and
\* test are disjoint, together they are every row, each train row precedes
\* each validation row, which precedes each test row; each X set has the rows
\* of its y set in the same order; the feature columns are all columns but
\* 'date' and 'demand'.
C6_ChronologicalPartition ==
    Split =>
        /\ (X_train.index \o X_val.index) \o X_test.index = df.index
        /\ \A i \in 1..Len(X_train.index), j \in 1..Len(X_val.index) :
            X_train.index[i] < X_val.index[j]
        /\ \A i \in 1..Len(X_val.index), j \in 1..Len(X_test.index) :
            X_val.index[i] < X_test.index[j]
        /\ \A i \in 1..Len(X_train.index), j \in 1..Len(X_test.index) :
            X_train.index[i] < X_test.index[j]
        /\ \A i, j \in 1..Len(df.index) : i < j => df.index[i] < df.index[j]
        /\ Aligned(X_train, y_train)
        /\ Aligned(X_val, y_val)
        /\ Aligned(X_test, y_test)

C6_Witness ==
    /\ Split
    /\ Len(X_train.index) >= 2 /\ Len(X_val.index) >= 1 /\ Len(X_test.index) >= 2

\* C7: every demand generate_demand_data returns is non-negative, and the
\* frame has n_periods rows dated on consecutive days from 2021-01-01.
C7_NonNegativeDemand ==
    (Generated /\ ~Prepared) =>
        /\ Len(df.data) = args.n_periods
        /\ Len(df.index) = args.n_periods
        /\ \A k \in 1..Len(df.data) :
            /\ Val(df.data[k]["demand"]) >= 0
            /\ df.data[k]["date"] = <<k - 1>>
        /\ Len(df.data) >= 1 =>
            /\ df.data[1]["year"] = <<2021>>
            /\ df.data[1]["month"] = <<1>>
            /\ df.data[1]["day"] = <<1>>

\* a draw that would make the demand negative is clamped to 0
C7_Witness ==
    /\ Generated /\ ~Prepared
    /\ args.n_periods >= 2
    /\ \E k \in 1..Len(df.data) : df.data[k]["demand"] = <<0>>
    /\ \E k \in 1..Len(df.data) : Val(df.data[k]["demand"]) > 0

\* C8: what %store saves is aligned: test_sample and actual have the same
\* length and actual[i] is the demand of the test row whose features are
\* test_sample[i].
C8_StoredSampleAligned ==
    stored.saved =>
        /\ Len(stored.test_sample) = Len(stored.actual)
        /\ \A i \in 1..Len(stored.test_sample) :
            /\ stored.test_sample[i] = ValuesToList(X_test)[i]
            /\ stored.actual[i] = y_test.data[i]

====
